---- MODULE Spec2Model ----
(***************************************************************************)
(* TaskFlow-API: TasksService (tasks.service.ts) with its three            *)
(* dependencies, the entity store (TypeORM on Postgres), the cache         *)
(* (cache-manager on Redis) and the job queue (BullMQ).                    *)
(*                                                                         *)
(* Every client request is a process that runs one service method; one     *)
(* action is one stretch of the method between two awaits.  The store is   *)
(* READ COMMITTED: writes of an open transaction are private to it until   *)
(* commit, and a written row stays locked until the transaction ends.      *)
(*                                                                         *)
(* RateLimitGuard (rate-limit.guard.ts) is modelled with its record map    *)
(* and the clock, and TaskProcessorService (task-processor.service.ts) as  *)
(* one more process, the worker of the queue, which calls the service from *)
(* the handlers of the jobs it takes.                                      *)
(***************************************************************************)
EXTENDS Integers, Sequences, FiniteSets, Bags, TLC

\* ---------------------------------------------------------------- bounds
MaxTasks == 2          \* ids the store hands out: 1..MaxTasks
MaxOps == 3            \* service calls started in one behaviour of overlapping requests
MaxSerialOps == 4      \* service calls started in one behaviour of requests in a row
MaxFaults == 1         \* cache / queue calls that fail in one behaviour
MaxRequests == 5       \* requests that reach the rate-limit guard in one behaviour
MaxTicks == 3          \* times the clock is seen to advance in one behaviour
Limit == 2             \* requests per window the route allows (100 in the controller)

MaxJobs == 2           \* jobs that producers other than TasksService add in one behaviour

Clients == {"r1", "r2"}  \* request handlers that can be busy at the same time
Workers == {"w"}         \* the queue worker, which runs one job at a time
Procs == Clients \cup Workers
\* a request goes to r2 only when r1 has taken one before (the handlers are alike)
Earlier(p) == IF p = "r2" THEN {"r1"} ELSE {}
Ids == 1..MaxTasks

\* ------------------------------------------------------------ data types
\* a task is its status and priority; NoTask stands for an absent row and NoDto
\* for a dto that defines no field
NoTask == [status |-> "none", priority |-> "none"]
NoDto == [status |-> "undef", priority |-> "undef"]

\* a filter object is the sequence of its (field, value) entries in
\* insertion order; all values are written as strings
Filters ==
  { << <<"status", "COMPLETED">>, <<"sortOrder", "ASC">> >>,
    << <<"sortOrder", "ASC">>, <<"status", "COMPLETED">> >> }

Field(filter, name) ==
  IF \E i \in 1..Len(filter) : filter[i][1] = name
  THEN filter[CHOOSE i \in 1..Len(filter) : filter[i][1] = name][2]
  ELSE "undef"

\* JSON.stringify of an object lists the entries in insertion order; the key
\* is the text "tasks:" followed by that listing
getCacheKey(filter) == <<"tasks:">> \o filter

ListKeys == { getCacheKey(f) : f \in Filters }

\* -------------------------------------------------- rate-limit data types
WindowMs == 60000

\* the route's @RateLimit options
RateLimitOptions == [limit |-> Limit, windowMs |-> WindowMs]

\* an address is the sequence of its dot-separated parts
Ips == { <<"10", "0", "0", "1">>, <<"10", "0", "1", "7">> }

\* ip.replace(/\d+$/, 'x'): the trailing digits become x
anonymizeIp(ip) == [ip EXCEPT ![Len(ip)] = "x"]

Keys == { anonymizeIp(ip) : ip \in Ips }

\* the second caller is heard of only when the first has a record (the callers
\* are alike)
EarlierIps(ip) == IF ip = <<"10", "0", "1", "7">> THEN {<<"10", "0", "0", "1">>} ELSE {}

\* NoRecord stands for the undefined that Map.get gives for an absent key
NoRecord == [count |-> 0, expiresAt |-> -1]

\* the clock moves by a millisecond or by a millisecond less than a window
ClockSteps == {1, WindowMs - 1}

\* Math.ceil(n / d)
Ceil(n, d) == -((-n) \div d)

NoHandled == [key |-> << >>, at |-> 0, allowed |-> FALSE, retryAfter |-> 0,
              seen |-> NoRecord, before |-> NoRecord, after |-> NoRecord]

\* ----------------------------------------------------------------- state
VARIABLES
  store,      \* committed rows of the task table: id -> Task or NoTask
  nextId,     \* the next identifier the store generates
  tx,         \* per request: "open" while its dataSource.transaction runs
  txw,        \* per request: the row its open transaction has written
  cache,      \* the key-value cache: task:<id>, tasks:stats, tasks:all, tasks:<filter>
  queue,      \* jobs accepted by the task-processing queue, oldest first
  pc,         \* per request: where the method stands
  loc,        \* per request: the method's arguments and locals
  res,        \* per request: what the caller received
  ver,        \* history: number of committed changes of each row
  invVer,     \* history: the newest change of each row whose mutation has returned
  firstRead,  \* history: the version findOne first put in the cache, 0 if none
  lastWrite,  \* history: the request that last wrote the task table
  serial,     \* environment: requests arrive one after the other
  nops,       \* calls started
  nfaults,    \* dependency calls that failed
  now,            \* Date.now(), in milliseconds since the process started
  rateLimitStore, \* the guard's map: caller key -> { count, expiresAt }
  pending,        \* requests the server has received and the guard has not seen yet
  admitted,       \* history: per caller key, the requests the guard let through
  handled,        \* history: the request the guard handled last
  nreq,           \* requests received
  nticks,         \* clock advances
  jobst,          \* the queue's record of each job the worker has taken, by position in queue
  retry,          \* jobs back in the wait list after their backoff delay, oldest first
  active,         \* position in queue of the job the worker is processing, 0 if none
  due,            \* the dueDate column of the task table: id -> << >> (null) or <<time>>
  scan,           \* the overdue scan: where it stands, what it found, what it logged
  listing         \* one findAll query: the table, sortBy, sortOrder and the rows returned

serviceVars == <<store, nextId, tx, txw, cache, queue, pc, loc, res, ver, invVer,
                 firstRead, lastWrite, serial, nops, nfaults>>
guardVars == <<now, rateLimitStore, pending, admitted, handled, nreq, nticks>>
workerVars == <<jobst, retry, active>>
scanVars == <<due, scan>>
sortVars == <<listing>>
vars == <<serviceVars, guardVars, workerVars, scanVars, sortVars>>

Miss == [hit |-> FALSE, val |-> NoTask, tag |-> 0]
NoWrite == [id |-> 0, val |-> NoTask]
NoRes == [kind |-> "none", err |-> "", val |-> NoTask, tag |-> 0]

\* history record of a store write: the method, its ids and status, the rows it
\* reported, and for a bulkUpdateStatus whether it repeats the write before it
\* (again), what that one reported (before) and whether this one changed a row
Write(op, ids, status, affected) ==
  [op |-> op, ids |-> ids, status |-> status, affected |-> affected,
   again |-> FALSE, before |-> 0, changed |-> FALSE]

\* the tables the service may find when it starts
InitialTables ==
  { [i \in Ids |-> NoTask],
    [i \in Ids |-> IF i = 1 THEN [status |-> "PENDING", priority |-> "LOW"]
                   ELSE NoTask] }

Locals(op) ==
  [op |-> op, id |-> 0, dto |-> NoDto, ids |-> << >>, filter |-> << >>, i |-> 0,
   task |-> NoTask, resp |-> NoTask, tag |-> 0, affected |-> 0,
   enq |-> "none", del |-> FALSE, cfail |-> FALSE,
   wv |-> [i \in Ids |-> 0], hit |-> FALSE, sinv |-> 0]

\* no task has a dueDate
NoDueDates == [i \in Ids |-> << >>]

\* the scan at rest; found, results, at, table and dates are history of the
\* last scan: the ids it found, the outcome of each add, its time and the
\* table it read
NoScan ==
  [pc |-> "idle", found |-> << >>, results |-> << >>, i |-> 0, at |-> 0,
   table |-> [i \in Ids |-> NoTask], dates |-> NoDueDates,
   log |-> [found |-> 0, enqueued |-> 0, failed |-> 0], ended |-> "none"]

\* no query has been made
NoListing ==
  [rows |-> << >>, sortBy |-> "undef", sortOrder |-> "undef", data |-> << >>,
   pc |-> "none"]

StartWith(tables, dueDates) ==
  /\ store \in tables
  /\ due \in dueDates
  /\ scan = NoScan
  /\ listing = NoListing
  /\ nextId = Cardinality({i \in Ids : store[i] # NoTask}) + 1
  /\ tx = [p \in Procs |-> "none"]
  /\ txw = [p \in Procs |-> NoWrite]
  /\ cache = [task |-> [i \in Ids |-> Miss], stats |-> Miss, all |-> Miss,
              list |-> [k \in ListKeys |-> Miss]]
  /\ queue = << >>
  /\ pc = [p \in Procs |-> "idle"]
  /\ loc = [p \in Procs |-> Locals("none")]
  /\ res = [p \in Procs |-> NoRes]
  /\ ver = [i \in Ids |-> IF store[i] # NoTask THEN 1 ELSE 0]
  /\ invVer = ver
  /\ firstRead = [i \in Ids |-> 0]
  /\ lastWrite = Write("none", << >>, "none", 0)
  /\ nops = 0
  /\ nfaults = 0
  /\ now = 0
  /\ rateLimitStore = [k \in Keys |-> NoRecord]
  /\ pending = EmptyBag
  /\ admitted = [k \in Keys |-> << >>]
  /\ handled = NoHandled
  /\ nreq = 0
  /\ nticks = 0
  /\ jobst = << >>
  /\ retry = << >>
  /\ active = 0

Start == StartWith(InitialTables, {NoDueDates})

Init == Start /\ serial = FALSE

InitSerial == Start /\ serial = TRUE

\* ------------------------------------------------------ the entity store
Exists(s, i) == s[i] # NoTask

\* a row written by another request's open transaction is locked until that
\* transaction ends; a second writer waits
Locked(p, i) == \E q \in Procs \ {p} : tx[q] = "open" /\ txw[q].id = i

\* repo.merge: the fields the dto defines replace the entity's
merge(task, dto) ==
  [status |-> IF dto.status = "undef" THEN task.status ELSE dto.status,
   priority |-> IF dto.priority = "undef" THEN task.priority ELSE dto.priority]

\* history: the row versions after the table went from s to t
Bump(s, t) == [i \in Ids |-> IF s[i] # t[i] THEN ver[i] + 1 ELSE ver[i]]

\* UPDATE task SET status = :status WHERE id IN (:...ids)
BulkSet(s, ids, status) ==
  [i \in Ids |-> IF (\E k \in 1..Len(ids) : ids[k] = i) /\ Exists(s, i)
                 THEN [s[i] EXCEPT !.status = status] ELSE s[i]]

\* DELETE FROM task WHERE id IN (:...ids)
BulkDel(s, ids) ==
  [i \in Ids |-> IF \E k \in 1..Len(ids) : ids[k] = i THEN NoTask ELSE s[i]]

\* mutant: the count of the rows whose status the UPDATE changed, as a store
\* that reports changed rows instead of matched rows gives it
Affected_changedRows(s, ids, status) ==
  Cardinality({i \in Ids : /\ \E k \in 1..Len(ids) : ids[k] = i
                           /\ Exists(s, i)
                           /\ s[i].status # status})

\* rows the WHERE clause matches: Postgres reports them as affected, whether
\* or not the status they are set to differs from the one they have
Affected(s, ids, status) ==
  Cardinality({i \in Ids : (\E k \in 1..Len(ids) : ids[k] = i) /\ Exists(s, i)})

\* the aggregate query of getStats
Stats(s) ==
  [total |-> Cardinality({i \in Ids : Exists(s, i)}),
   completed |-> Cardinality({i \in Ids : s[i].status = "COMPLETED"}),
   inProgress |-> Cardinality({i \in Ids : s[i].status = "IN_PROGRESS"}),
   pending |-> Cardinality({i \in Ids : s[i].status = "PENDING"}),
   highPriority |-> Cardinality({i \in Ids : s[i].priority = "HIGH"})]

DefaultPage == 1
DefaultLimit == 10

\* ids of S in creation order; the store hands ids out in increasing order, so
\* createdAt orders rows as their ids do
RECURSIVE Ascending(_)
Ascending(S) ==
  IF S = {} THEN << >>
  ELSE LET m == CHOOSE x \in S : \A y \in S : x <= y
       IN <<m>> \o Ascending(S \ {m})

Reverse(q) == [k \in 1..Len(q) |-> q[Len(q) + 1 - k]]

\* the query findAll builds; the filters of this model carry neither sortBy,
\* page nor limit, so the order field is createdAt and the page the first
Query(s, filter) ==
  LET match == {i \in Ids :
                  /\ Exists(s, i)
                  /\ Field(filter, "status") \in {"undef", s[i].status}
                  /\ Field(filter, "priority") \in {"undef", s[i].priority}}
      asc == Ascending(match)
      ordered == IF Field(filter, "sortOrder") = "ASC" THEN asc ELSE Reverse(asc)
      skip == (DefaultPage - 1) * DefaultLimit
      last == IF Len(ordered) < skip + DefaultLimit THEN Len(ordered)
              ELSE skip + DefaultLimit
      items == SubSeq(ordered, skip + 1, last)
      total == Cardinality(match)
  IN [data |-> [k \in 1..Len(items) |->
                  [id |-> items[k], status |-> s[items[k]].status,
                   priority |-> s[items[k]].priority]],
      total |-> total, page |-> DefaultPage, limit |-> DefaultLimit,
      totalPages |-> (total + DefaultLimit - 1) \div DefaultLimit]

\* ------------------------------------------------------ shared fragments
Ok(val, tag) == [kind |-> "ok", err |-> "", val |-> val, tag |-> tag]
Error(err) == [kind |-> "error", err |-> err, val |-> NoTask, tag |-> 0]

\* a request arrives at a free handler; the worker calls the service from the
\* handler of the job it is processing
Begin(p) ==
  IF p \in Workers
  THEN /\ pc[p] = "process"
       /\ nops' = nops
  ELSE /\ pc[p] \in {"idle", "done"}
       /\ nops < (IF serial THEN MaxSerialOps ELSE MaxOps)
       /\ \A q \in Earlier(p) : pc[q] # "idle"
       /\ serial => \A q \in Procs \ {p} : pc[q] = "idle"
       /\ nops' = nops + 1

Goto(p, label) ==
  /\ pc' = [pc EXCEPT ![p] = label]
  /\ res' = [res EXCEPT ![p] = NoRes]
  /\ serial' = serial
  /\ UNCHANGED <<guardVars, workerVars, scanVars, sortVars>>

Finish(p, r) ==
  /\ pc' = [pc EXCEPT ![p] = "done"]
  /\ res' = [res EXCEPT ![p] = r]
  /\ serial' = serial
  /\ UNCHANGED <<guardVars, workerVars, scanVars, sortVars>>

\* outcome of one call to the cache or the queue: ok, or the call rejects
Call(ok) ==
  /\ ok \/ nfaults < MaxFaults
  /\ nfaults' = IF ok THEN nfaults ELSE nfaults + 1

\* the method goes on to its next await
Continue(p, label) ==
  /\ Goto(p, label)
  /\ UNCHANGED <<tx, txw, invVer>>

\* an exception leaves the method: an open transaction rolls back
Throw(p, err) ==
  /\ Finish(p, Error(err))
  /\ tx' = [tx EXCEPT ![p] = "none"]
  /\ txw' = [txw EXCEPT ![p] = NoWrite]
  /\ UNCHANGED invVer

\* a mutation returns normally: its invalidation is complete
Return(p, r) ==
  /\ Finish(p, r)
  /\ invVer' = [i \in Ids |-> IF loc[p].wv[i] > invVer[i] THEN loc[p].wv[i]
                              ELSE invVer[i]]
  /\ UNCHANGED <<tx, txw>>

\* the versions a request wrote, after it took the table from s to t
Wrote(p, s, t) ==
  [i \in Ids |-> IF s[i] # t[i] THEN ver[i] + 1 ELSE loc[p].wv[i]]

Attempts == 3
BackoffDelay == 1000

\* the job create, update and bulkUpdateStatus add, with its options
Job(taskId, status) ==
  [name |-> "task-status-update", taskId |-> taskId, status |-> status,
   attempts |-> Attempts, delay |-> BackoffDelay]

\* ------------------------------------------------------------- findOne
\* lines 149-154: cacheService.get(`task:${id}`), return the cached task
findOne(p, id) ==
  \E ok \in BOOLEAN :
    LET l == [Locals("findOne") EXCEPT !.id = id, !.sinv = invVer[id],
                                       !.cfail = ~ok,
                                       !.hit = ok /\ cache.task[id].hit]
    IN /\ Begin(p)
       /\ Call(ok)
       /\ loc' = [loc EXCEPT ![p] = l]
       /\ IF ~ok THEN Finish(p, Error("cache"))
          ELSE IF cache.task[id].hit
               THEN Finish(p, Ok(cache.task[id].val, cache.task[id].tag))
               ELSE Goto(p, "findOne_db")
       /\ UNCHANGED <<store, nextId, tx, txw, cache, queue, ver, invVer,
                      firstRead, lastWrite>>

\* lines 156-161: tasksRepository.findOne, NotFoundException when absent
findOne_db(p) ==
  /\ pc[p] = "findOne_db"
  /\ IF Exists(store, loc[p].id)
     THEN /\ loc' = [loc EXCEPT ![p].task = store[loc[p].id],
                                ![p].tag = ver[loc[p].id]]
          /\ Goto(p, "findOne_set")
     ELSE /\ loc' = loc
          /\ Finish(p, Error("NotFound"))
  /\ UNCHANGED <<store, nextId, tx, txw, cache, queue, ver, invVer, firstRead,
                 lastWrite, nops, nfaults>>

\* lines 163-165: cacheService.set(cacheKey, task), return task
findOne_set(p) ==
  \E ok \in BOOLEAN :
    LET id == loc[p].id IN
    /\ pc[p] = "findOne_set"
    /\ Call(ok)
    /\ loc' = [loc EXCEPT ![p].cfail = ~ok]
    /\ IF ok
       THEN /\ cache' = [cache EXCEPT !.task[id] =
                           [hit |-> TRUE, val |-> loc[p].task, tag |-> loc[p].tag]]
            /\ firstRead' = [firstRead EXCEPT ![id] =
                               IF @ = 0 THEN loc[p].tag ELSE @]
            /\ Finish(p, Ok(loc[p].task, loc[p].tag))
       ELSE /\ UNCHANGED <<cache, firstRead>>
            /\ Finish(p, Error("cache"))
    /\ UNCHANGED <<store, nextId, tx, txw, queue, ver, invVer, lastWrite, nops>>

\* ------------------------------------------------------------- getStats
\* lines 119-124: cacheService.get('tasks:stats')
getStats(p) ==
  \E ok \in BOOLEAN :
    /\ Begin(p)
    /\ Call(ok)
    /\ loc' = [loc EXCEPT ![p] = [Locals("getStats") EXCEPT
                                    !.cfail = ~ok, !.hit = ok /\ cache.stats.hit]]
    /\ IF ~ok THEN Finish(p, Error("cache"))
       ELSE IF cache.stats.hit THEN Finish(p, Ok(cache.stats.val, 0))
            ELSE Goto(p, "getStats_db")
    /\ UNCHANGED <<store, nextId, tx, txw, cache, queue, ver, invVer,
                   firstRead, lastWrite>>

\* lines 126-140: the aggregate query
getStats_db(p) ==
  /\ pc[p] = "getStats_db"
  /\ loc' = [loc EXCEPT ![p].resp = Stats(store)]
  /\ Goto(p, "getStats_set")
  /\ UNCHANGED <<store, nextId, tx, txw, cache, queue, ver, invVer, firstRead,
                 lastWrite, nops, nfaults>>

\* lines 142-144: cacheService.set('tasks:stats', stats)
getStats_set(p) ==
  \E ok \in BOOLEAN :
    /\ pc[p] = "getStats_set"
    /\ Call(ok)
    /\ loc' = [loc EXCEPT ![p].cfail = ~ok]
    /\ IF ok
       THEN /\ cache' = [cache EXCEPT !.stats =
                           [hit |-> TRUE, val |-> loc[p].resp, tag |-> 0]]
            /\ Finish(p, Ok(loc[p].resp, 0))
       ELSE /\ cache' = cache
            /\ Finish(p, Error("cache"))
    /\ UNCHANGED <<store, nextId, tx, txw, queue, ver, invVer, firstRead,
                   lastWrite, nops>>

\* -------------------------------------------------------------- findAll
\* lines 72-81: cacheService.get(getCacheKey(filter))
findAll(p, filter) ==
  \E ok \in BOOLEAN :
    LET key == getCacheKey(filter) IN
    /\ Begin(p)
    /\ Call(ok)
    /\ loc' = [loc EXCEPT ![p] = [Locals("findAll") EXCEPT
                                    !.filter = filter, !.cfail = ~ok,
                                    !.hit = ok /\ cache.list[key].hit]]
    /\ IF ~ok THEN Finish(p, Error("cache"))
       ELSE IF cache.list[key].hit THEN Finish(p, Ok(cache.list[key].val, 0))
            ELSE Goto(p, "findAll_db")
    /\ UNCHANGED <<store, nextId, tx, txw, cache, queue, ver, invVer,
                   firstRead, lastWrite>>

\* lines 83-110: the filtered, ordered, paginated query
findAll_db(p) ==
  /\ pc[p] = "findAll_db"
  /\ loc' = [loc EXCEPT ![p].resp = Query(store, loc[p].filter)]
  /\ Goto(p, "findAll_set")
  /\ UNCHANGED <<store, nextId, tx, txw, cache, queue, ver, invVer, firstRead,
                 lastWrite, nops, nfaults>>

\* lines 112-115: cacheService.set(cacheKey, response)
findAll_set(p) ==
  \E ok \in BOOLEAN :
    /\ pc[p] = "findAll_set"
    /\ Call(ok)
    /\ loc' = [loc EXCEPT ![p].cfail = ~ok]
    /\ IF ok
       THEN /\ cache' = [cache EXCEPT !.list[getCacheKey(loc[p].filter)] =
                           [hit |-> TRUE, val |-> loc[p].resp, tag |-> 0]]
            /\ Finish(p, Ok(loc[p].resp, 0))
       ELSE /\ cache' = cache
            /\ Finish(p, Error("cache"))
    /\ UNCHANGED <<store, nextId, tx, txw, queue, ver, invVer, firstRead,
                   lastWrite, nops>>

\* an entry outlives its TTL (80 s) and is dropped by the cache
Expire ==
  /\ \/ \E i \in Ids : cache.task[i].hit /\ cache' = [cache EXCEPT !.task[i] = Miss]
     \/ cache.stats.hit /\ cache' = [cache EXCEPT !.stats = Miss]
     \/ \E k \in ListKeys : cache.list[k].hit /\ cache' = [cache EXCEPT !.list[k] = Miss]
  /\ UNCHANGED <<store, nextId, tx, txw, queue, pc, loc, res, ver, invVer,
                 firstRead, lastWrite, serial, nops, nfaults>>
  /\ UNCHANGED <<guardVars, workerVars, scanVars, sortVars>>

\* --------------------------------------------------------------- create
NewTasks == {[status |-> "PENDING", priority |-> "LOW"]}

\* lines 49-52: dataSource.transaction opens, repo.save inserts the new row
create(p, task) ==
  /\ Begin(p)
  /\ nextId <= MaxTasks
  /\ nextId' = nextId + 1
  /\ tx' = [tx EXCEPT ![p] = "open"]
  /\ txw' = [txw EXCEPT ![p] = [id |-> nextId, val |-> task]]
  /\ loc' = [loc EXCEPT ![p] = [Locals("create") EXCEPT !.id = nextId,
                                                       !.task = task]]
  /\ Goto(p, "create_add")
  /\ UNCHANGED <<store, cache, queue, ver, invVer, firstRead, lastWrite, nfaults>>

\* lines 54-62: taskQueue.add inside the transaction callback, errors logged
create_add(p) ==
  \E ok \in BOOLEAN :
    /\ pc[p] = "create_add"
    /\ Call(ok)
    /\ queue' = IF ok THEN Append(queue, Job(loc[p].id, loc[p].task.status))
                ELSE queue
    /\ loc' = [loc EXCEPT ![p].enq = IF ok THEN "ok" ELSE "failed"]
    /\ Continue(p, "create_commit")
    /\ UNCHANGED <<store, nextId, cache, ver, firstRead, lastWrite, nops>>

\* lines 64-65: the callback returns, the transaction commits
create_commit(p) ==
  LET t == [store EXCEPT ![txw[p].id] = txw[p].val] IN
  /\ pc[p] = "create_commit"
  /\ store' = t
  /\ ver' = Bump(store, t)
  /\ loc' = [loc EXCEPT ![p].wv = Wrote(p, store, t)]
  /\ lastWrite' = Write("create", <<txw[p].id>>, txw[p].val.status, 1)
  /\ tx' = [tx EXCEPT ![p] = "none"]
  /\ txw' = [txw EXCEPT ![p] = NoWrite]
  /\ Goto(p, "inv_all")
  /\ UNCHANGED <<nextId, cache, queue, invVer, firstRead, nops, nfaults>>

\* -------------------------------------------------- invalidateTaskCache
\* lines 36-38, first key: cacheService.del('tasks:all')
invalidateTaskCache_all(p) ==
  \E ok \in BOOLEAN :
    /\ pc[p] = "inv_all"
    /\ Call(ok)
    /\ loc' = [loc EXCEPT ![p].del = TRUE, ![p].cfail = ~ok]
    /\ cache' = IF ok THEN [cache EXCEPT !.all = Miss] ELSE cache
    /\ IF ok THEN Continue(p, "inv_stats") ELSE Throw(p, "cache")
    /\ UNCHANGED <<store, nextId, queue, ver, firstRead, lastWrite, nops>>

\* lines 36-40, second key: cacheService.del('tasks:stats'); create,
\* bulkUpdateStatus and bulkDelete return after it
invalidateTaskCache_stats(p) ==
  \E ok \in BOOLEAN :
    /\ pc[p] = "inv_stats"
    /\ Call(ok)
    /\ loc' = [loc EXCEPT ![p].cfail = ~ok]
    /\ cache' = IF ok THEN [cache EXCEPT !.stats = Miss] ELSE cache
    /\ IF ~ok THEN Throw(p, "cache")
       ELSE CASE loc[p].op = "create" ->
                   Return(p, Ok(loc[p].task, loc[p].wv[loc[p].id]))
              [] loc[p].op \in {"bulkUpdateStatus", "bulkDelete"} ->
                   Return(p, Ok([affected |-> loc[p].affected], 0))
              [] OTHER -> Continue(p, "del_task")
    /\ UNCHANGED <<store, nextId, queue, ver, firstRead, lastWrite, nops>>

\* mutant: the method goes on without deleting task:<id>
del_task_skipped(p) ==
  LET op == loc[p].op
      more == loc[p].i < Len(loc[p].ids)
  IN
  /\ pc[p] = "del_task"
  /\ loc' = [loc EXCEPT ![p].i = IF op = "bulkDelete" /\ more THEN @ + 1 ELSE @]
  /\ CASE op = "update" -> Continue(p, "update_commit")
       [] op = "remove" -> Return(p, Ok([affected |-> 1], 0))
       [] op = "updateStatus" -> Return(p, Ok(loc[p].task, loc[p].wv[loc[p].id]))
       [] op = "bulkUpdateStatus" -> Continue(p, "bulkUpdateStatus_add")
       [] op = "bulkDelete" -> Continue(p, IF more THEN "del_task" ELSE "inv_all")
  /\ UNCHANGED <<store, nextId, cache, queue, ver, firstRead, lastWrite, nops,
                 nfaults>>

\* cacheService.del(`task:${id}`): lines 191, 206, 223, 250, 269
del_task(p) ==
  \E ok \in BOOLEAN :
    LET op == loc[p].op
        id == IF op \in {"bulkUpdateStatus", "bulkDelete"}
              THEN loc[p].ids[loc[p].i] ELSE loc[p].id
        more == loc[p].i < Len(loc[p].ids)
    IN
    /\ pc[p] = "del_task"
    /\ Call(ok)
    /\ cache' = IF ok THEN [cache EXCEPT !.task[id] = Miss] ELSE cache
    /\ loc' = [loc EXCEPT ![p].del = TRUE, ![p].cfail = ~ok,
                          ![p].i = IF ok /\ op = "bulkDelete" /\ more
                                   THEN @ + 1 ELSE @]
    /\ IF ~ok THEN Throw(p, "cache")
       ELSE CASE op = "update" -> Continue(p, "update_commit")
              [] op = "remove" -> Return(p, Ok([affected |-> 1], 0))
              [] op = "updateStatus" ->
                   Return(p, Ok(loc[p].task, loc[p].wv[loc[p].id]))
              [] op = "bulkUpdateStatus" -> Continue(p, "bulkUpdateStatus_add")
              [] op = "bulkDelete" ->
                   Continue(p, IF more THEN "del_task" ELSE "inv_all")
    /\ UNCHANGED <<store, nextId, queue, ver, firstRead, lastWrite, nops>>

\* --------------------------------------------------------------- update
Dtos == {[status |-> "COMPLETED", priority |-> "undef"],
         [status |-> "undef", priority |-> "HIGH"]}

\* lines 169-172: the transaction opens, repo.findOne reads the row in it
update(p, id, dto) ==
  /\ Begin(p)
  /\ loc' = [loc EXCEPT ![p] = [Locals("update") EXCEPT
                                  !.id = id, !.dto = dto, !.task = store[id]]]
  /\ IF Exists(store, id)
     THEN /\ tx' = [tx EXCEPT ![p] = "open"]
          /\ Goto(p, "update_save")
     ELSE /\ tx' = tx
          /\ Finish(p, Error("NotFound"))
  /\ UNCHANGED <<store, nextId, txw, cache, queue, ver, invVer, firstRead,
                 lastWrite, nfaults>>

\* lines 174-178: merge the dto into the entity read and save it in the
\* transaction; resp keeps the entity for the caller
update_save(p) ==
  LET saved == merge(loc[p].task, loc[p].dto) IN
  /\ pc[p] = "update_save"
  /\ ~Locked(p, loc[p].id)
  /\ txw' = [txw EXCEPT ![p] = [id |-> loc[p].id, val |-> saved]]
  /\ loc' = [loc EXCEPT ![p].task = saved]
  /\ Goto(p, IF loc[p].task.status # saved.status THEN "update_add" ELSE "inv_all")
  /\ UNCHANGED <<store, nextId, tx, cache, queue, ver, invVer, firstRead,
                 lastWrite, nops, nfaults>>

\* mutant: the error of taskQueue.add is not caught
update_add_uncaught(p) ==
  \E ok \in BOOLEAN :
    /\ pc[p] = "update_add"
    /\ Call(ok)
    /\ queue' = IF ok THEN Append(queue, Job(loc[p].id, loc[p].task.status))
                ELSE queue
    /\ loc' = [loc EXCEPT ![p].enq = IF ok THEN "ok" ELSE "failed"]
    /\ IF ok THEN Continue(p, "inv_all") ELSE Throw(p, "queue")
    /\ UNCHANGED <<store, nextId, cache, ver, firstRead, lastWrite, nops>>

\* lines 179-187: taskQueue.add inside the transaction callback, errors logged
update_add(p) ==
  \E ok \in BOOLEAN :
    /\ pc[p] = "update_add"
    /\ Call(ok)
    /\ queue' = IF ok THEN Append(queue, Job(loc[p].id, loc[p].task.status))
                ELSE queue
    /\ loc' = [loc EXCEPT ![p].enq = IF ok THEN "ok" ELSE "failed"]
    /\ Continue(p, "inv_all")
    /\ UNCHANGED <<store, nextId, cache, ver, firstRead, lastWrite, nops>>

\* lines 194-195: the callback returns saved, the transaction commits
update_commit(p) ==
  LET t == [store EXCEPT ![txw[p].id] = txw[p].val]
      w == Wrote(p, store, t)
  IN
  /\ pc[p] = "update_commit"
  /\ store' = t
  /\ ver' = Bump(store, t)
  /\ loc' = [loc EXCEPT ![p].wv = w]
  /\ lastWrite' = Write("update", <<txw[p].id>>, txw[p].val.status, 1)
  /\ tx' = [tx EXCEPT ![p] = "none"]
  /\ txw' = [txw EXCEPT ![p] = NoWrite]
  /\ invVer' = [i \in Ids |-> IF w[i] > invVer[i] THEN w[i] ELSE invVer[i]]
  /\ Finish(p, Ok(loc[p].task, ver'[loc[p].id]))
  /\ UNCHANGED <<nextId, cache, queue, firstRead, nops, nfaults>>

\* --------------------------------------------------------------- remove
\* mutant: the cache entry of the id is deleted before the delete is looked at
remove_invalidates(p, id) ==
  LET t == [store EXCEPT ![id] = NoTask] IN
  /\ Begin(p)
  /\ ~Locked(p, id)
  /\ IF Exists(store, id)
     THEN /\ store' = t
          /\ ver' = Bump(store, t)
          /\ lastWrite' = Write("remove", <<id>>, "none", 1)
          /\ loc' = [loc EXCEPT ![p] = [Locals("remove") EXCEPT
                                          !.id = id, !.affected = 1,
                                          !.wv = Wrote(p, store, t)]]
          /\ cache' = cache
          /\ Goto(p, "inv_all")
     ELSE /\ UNCHANGED <<store, ver, lastWrite>>
          /\ loc' = [loc EXCEPT ![p] = [Locals("remove") EXCEPT !.id = id]]
          /\ cache' = [cache EXCEPT !.task[id] = Miss, !.stats = Miss]
          /\ Finish(p, Error("NotFound"))
  /\ UNCHANGED <<nextId, tx, txw, queue, invVer, firstRead, nfaults>>

\* lines 200-203: tasksRepository.delete(id), NotFoundException when no row went
remove(p, id) ==
  LET t == [store EXCEPT ![id] = NoTask] IN
  /\ Begin(p)
  /\ ~Locked(p, id)
  /\ IF Exists(store, id)
     THEN /\ store' = t
          /\ ver' = Bump(store, t)
          /\ lastWrite' = Write("remove", <<id>>, "none", 1)
          /\ loc' = [loc EXCEPT ![p] = [Locals("remove") EXCEPT
                                          !.id = id, !.affected = 1,
                                          !.wv = Wrote(p, store, t)]]
          /\ Goto(p, "inv_all")
     ELSE /\ UNCHANGED <<store, ver, lastWrite>>
          /\ loc' = [loc EXCEPT ![p] = [Locals("remove") EXCEPT !.id = id]]
          /\ Finish(p, Error("NotFound"))
  /\ UNCHANGED <<nextId, tx, txw, cache, queue, invVer, firstRead, nfaults>>

\* --------------------------------------------------------- updateStatus
\* mutant: the save is followed by a task-status-update job for the change
updateStatus_save_adds(p) ==
  LET updated == [loc[p].task EXCEPT !.status = loc[p].dto.status]
      t == [store EXCEPT ![loc[p].id] = updated]
  IN
  /\ pc[p] = "updateStatus_save"
  /\ ~Locked(p, loc[p].id)
  /\ store' = t
  /\ ver' = Bump(store, t)
  /\ lastWrite' = Write("updateStatus", <<loc[p].id>>, updated.status, 1)
  /\ loc' = [loc EXCEPT ![p].task = updated, ![p].wv = Wrote(p, store, t)]
  /\ queue' = Append(queue, Job(loc[p].id, updated.status))
  /\ Goto(p, "inv_all")
  /\ UNCHANGED <<nextId, tx, txw, cache, invVer, firstRead, nops, nfaults>>

\* lines 262-263: tasksRepository.findOne, NotFoundException when absent
updateStatus(p, id, status) ==
  /\ Begin(p)
  /\ loc' = [loc EXCEPT ![p] = [Locals("updateStatus") EXCEPT
                                  !.id = id, !.dto = [NoDto EXCEPT !.status = status],
                                  !.task = store[id]]]
  /\ IF Exists(store, id) THEN Goto(p, "updateStatus_save")
     ELSE Finish(p, Error("NotFound"))
  /\ UNCHANGED <<store, nextId, tx, txw, cache, queue, ver, invVer, firstRead,
                 lastWrite, nfaults>>

\* lines 265-266: task.status = status; tasksRepository.save(task) writes the
\* entity read before, inserting it when the row is gone
updateStatus_save(p) ==
  LET updated == [loc[p].task EXCEPT !.status = loc[p].dto.status]
      t == [store EXCEPT ![loc[p].id] = updated]
  IN
  /\ pc[p] = "updateStatus_save"
  /\ ~Locked(p, loc[p].id)
  /\ store' = t
  /\ ver' = Bump(store, t)
  /\ lastWrite' = Write("updateStatus", <<loc[p].id>>, updated.status, 1)
  /\ loc' = [loc EXCEPT ![p].task = updated, ![p].wv = Wrote(p, store, t)]
  /\ Goto(p, "inv_all")
  /\ UNCHANGED <<nextId, tx, txw, cache, queue, invVer, firstRead, nops, nfaults>>

\* ----------------------------------------------------- bulkUpdateStatus
IdLists == {[k \in 1..n |-> k] : n \in 0..MaxTasks}

\* lines 213-220: return on an empty list, else one UPDATE ... WHERE id IN ids
bulkUpdateStatus(p, ids, status) ==
  LET t == BulkSet(store, ids, status)
      n == Affected(store, ids, status)
  IN
  /\ Begin(p)
  /\ \A k \in 1..Len(ids) : ~Locked(p, ids[k])
  /\ store' = t
  /\ ver' = Bump(store, t)
  /\ lastWrite' =
       LET again == /\ lastWrite.op = "bulkUpdateStatus"
                    /\ lastWrite.ids = ids
                    /\ lastWrite.status = status
       IN [Write("bulkUpdateStatus", ids, status, n) EXCEPT
             !.again = again,
             !.before = IF again THEN lastWrite.affected ELSE 0,
             !.changed = t # store]
  /\ loc' = [loc EXCEPT ![p] = [Locals("bulkUpdateStatus") EXCEPT
                                  !.ids = ids, !.dto = [NoDto EXCEPT !.status = status],
                                  !.affected = n, !.i = 1,
                                  !.wv = Wrote(p, store, t)]]
  /\ IF ids = << >> THEN Finish(p, Ok([affected |-> 0], 0))
     ELSE Goto(p, "del_task")
  /\ UNCHANGED <<nextId, tx, txw, cache, queue, invVer, firstRead, nfaults>>

\* lines 224-232: taskQueue.add for ids[i], errors logged; then the next id
bulkUpdateStatus_add(p) ==
  \E ok \in BOOLEAN :
    LET more == loc[p].i < Len(loc[p].ids) IN
    /\ pc[p] = "bulkUpdateStatus_add"
    /\ Call(ok)
    /\ queue' = IF ok
                THEN Append(queue, Job(loc[p].ids[loc[p].i], loc[p].dto.status))
                ELSE queue
    /\ loc' = [loc EXCEPT ![p].enq = IF ok /\ @ # "failed" THEN "ok" ELSE "failed",
                          ![p].i = IF more THEN @ + 1 ELSE @]
    /\ Continue(p, IF more THEN "del_task" ELSE "inv_all")
    /\ UNCHANGED <<store, nextId, cache, ver, firstRead, lastWrite, nops>>

\* ----------------------------------------------------------- bulkDelete
\* lines 241-248: return on an empty list, else one DELETE ... WHERE id IN ids
bulkDelete(p, ids) ==
  LET t == BulkDel(store, ids) IN
  /\ Begin(p)
  /\ \A k \in 1..Len(ids) : ~Locked(p, ids[k])
  /\ store' = t
  /\ ver' = Bump(store, t)
  /\ lastWrite' = IF ids = << >> THEN lastWrite
                  ELSE Write("bulkDelete", ids, "none", Affected(store, ids, "none"))
  /\ loc' = [loc EXCEPT ![p] = [Locals("bulkDelete") EXCEPT
                                  !.ids = ids, !.affected = Affected(store, ids, "none"),
                                  !.i = 1, !.wv = Wrote(p, store, t)]]
  /\ IF ids = << >> THEN Finish(p, Ok([affected |-> 0], 0))
     ELSE Goto(p, "del_task")
  /\ UNCHANGED <<nextId, tx, txw, cache, queue, invVer, firstRead, nfaults>>

\* ------------------------------------------------------- RateLimitGuard
\* the server receives a request and gives it to a free handler; JwtAuthGuard
\* runs before RateLimitGuard, so further requests can be received before the
\* guard sees this one.  seen is history: the caller's record at the time the
\* request was received
request(ip) ==
  /\ nreq < MaxRequests
  /\ BagCardinality(pending) < Cardinality(Clients)
  /\ \A other \in EarlierIps(ip) : rateLimitStore[anonymizeIp(other)] # NoRecord
  /\ nreq' = nreq + 1
  /\ pending' = pending (+) SetToBag({[ip |-> ip,
                                       seen |-> rateLimitStore[anonymizeIp(ip)]]})
  /\ UNCHANGED <<now, rateLimitStore, admitted, handled, nticks>>
  /\ UNCHANGED <<serviceVars, workerVars, scanVars, sortVars>>

\* time passes
advance(d) ==
  /\ nticks < MaxTicks
  /\ nticks' = nticks + 1
  /\ now' = now + d
  /\ UNCHANGED <<rateLimitStore, pending, admitted, handled, nreq>>
  /\ UNCHANGED <<serviceVars, workerVars, scanVars, sortVars>>

\* mutant: the record as it was when the request was received
Record_stale(r) == r.seen

\* line 33: rateLimitStore.get(ip), the record the map holds when the guard runs
Record(r) == rateLimitStore[anonymizeIp(r.ip)]

\* mutant: a record never expires
Expired_never(record, t) == FALSE

\* mutant: a record is expired as soon as it is made
Expired_always(record, t) == TRUE

\* line 35: record.expiresAt < now
Expired(record, t) == record.expiresAt < t

\* mutant: the window is full one request later
Full_late(record, limit) == record.count > limit

\* line 40: record.count >= limit
Full(record, limit) == record.count >= limit

\* mutant: a rejected request is counted too
handleRateLimit_countsRejected(record, t, options) ==
  IF record = NoRecord \/ Expired(record, t)
  THEN [allowed |-> TRUE, retryAfter |-> 0, write |-> TRUE,
        record |-> [count |-> 1, expiresAt |-> t + options.windowMs]]
  ELSE IF Full(record, options.limit)
  THEN [allowed |-> FALSE, retryAfter |-> Ceil(record.expiresAt - t, 1000),
        write |-> TRUE, record |-> [record EXCEPT !.count = @ + 1]]
  ELSE [allowed |-> TRUE, retryAfter |-> 0, write |-> TRUE,
        record |-> [record EXCEPT !.count = @ + 1]]

\* lines 31-56: what the check answers at time t for the record it read, and
\* the record it puts in the map (write) if it puts one
handleRateLimit(record, t, options) ==
  IF record = NoRecord \/ Expired(record, t)
  THEN [allowed |-> TRUE, retryAfter |-> 0, write |-> TRUE,
        record |-> [count |-> 1, expiresAt |-> t + options.windowMs]]
  ELSE IF Full(record, options.limit)
  THEN [allowed |-> FALSE, retryAfter |-> Ceil(record.expiresAt - t, 1000),
        write |-> FALSE, record |-> record]
  ELSE [allowed |-> TRUE, retryAfter |-> 0, write |-> TRUE,
        record |-> [record EXCEPT !.count = @ + 1]]

\* lines 18-29: the guard runs for a received request of address ip; it has
\* no await, so it runs from the read of the record to the write without
\* another request in between
canActivate(ip) ==
  \E r \in BagToSet(pending) :
    LET key == anonymizeIp(r.ip)
        out == handleRateLimit(Record(r), now, RateLimitOptions)
        after == IF out.write THEN out.record ELSE rateLimitStore[key]
    IN
    /\ r.ip = ip
    /\ pending' = pending (-) SetToBag({r})
    /\ rateLimitStore' = [rateLimitStore EXCEPT ![key] = after]
    /\ admitted' = IF out.allowed
                   THEN [admitted EXCEPT ![key] =
                           Append(@, [at |-> now, seen |-> r.seen,
                                      win |-> out.record.expiresAt])]
                   ELSE admitted
    /\ handled' = [key |-> key, at |-> now, allowed |-> out.allowed,
                   retryAfter |-> out.retryAfter, seen |-> r.seen,
                   before |-> rateLimitStore[key], after |-> after]
    /\ UNCHANGED <<now, nreq, nticks>>
    /\ UNCHANGED <<serviceVars, workerVars, scanVars, sortVars>>

\* ------------------------------------------------- TaskProcessorService
OverdueBackoffDelay == 2000

\* the job checkOverdueTasks adds for a task, with its options
OverdueJob(taskId) ==
  [name |-> "overdue-tasks-notification", taskId |-> taskId, status |-> "undef",
   attempts |-> Attempts, delay |-> OverdueBackoffDelay]

\* Object.values(TaskStatus)
TaskStatus == {"PENDING", "IN_PROGRESS", "COMPLETED"}

\* jobs a producer puts on task-processing: the two kinds the service and the
\* scanner add, for a task that may be gone when the job runs, a payload with
\* no taskId (0) or no status (undef), a status outside the enum, and a kind
\* the processor does not know
JobInputs ==
  { Job(1, "COMPLETED"), OverdueJob(1),
    Job(0, "COMPLETED"), Job(1, "undef"), Job(1, "ARCHIVED"),
    [Job(1, "COMPLETED") EXCEPT !.name = "send-report"] }

\* a producer other than TasksService adds a job
add(job) ==
  /\ Len(queue) < MaxJobs
  /\ queue' = Append(queue, job)
  /\ UNCHANGED <<store, nextId, tx, txw, cache, pc, loc, res, ver, invVer,
                 firstRead, lastWrite, serial, nops, nfaults>>
  /\ UNCHANGED <<guardVars, workerVars, scanVars, sortVars>>

\* mutant: the same delay before every retry
Backoff_fixed(delay, attemptsMade) == delay

\* backoff { type: 'exponential', delay }: the delay before the retry that
\* follows the attemptsMade-th failed attempt
Backoff(delay, attemptsMade) == delay * 2 ^ (attemptsMade - 1)

\* the queue's record of a job the worker takes for the first time; started,
\* threw, notFound and reports are history: attempts begun, attempts that
\* threw, whether one threw NotFound, times the job was reported failed
NewJobState ==
  [state |-> "active", started |-> 1, threw |-> 0, notFound |-> FALSE,
   delays |-> << >>, reports |-> 0, ret |-> "none"]

\* the wait list is first in, first out: a job whose delay ended while the
\* queue held n jobs stands behind those n and before the ones added later
Fresh == Len(jobst) + 1
RetryFirst == retry # << >> /\ (Fresh > Len(queue) \/ retry[1].after < Fresh)

\* the worker is free and takes the job at the head of the wait list
fetch(p) ==
  /\ pc[p] = "idle"
  /\ active = 0
  /\ IF RetryFirst
     THEN /\ active' = retry[1].job
          /\ retry' = Tail(retry)
          /\ jobst' = [jobst EXCEPT ![retry[1].job].state = "active",
                                    ![retry[1].job].started = @ + 1]
     ELSE /\ Fresh <= Len(queue)
          /\ active' = Fresh
          /\ retry' = retry
          /\ jobst' = Append(jobst, NewJobState)
  /\ pc' = [pc EXCEPT ![p] = "process"]
  /\ UNCHANGED <<store, nextId, tx, txw, cache, queue, loc, res, ver, invVer,
                 firstRead, lastWrite, serial, nops, nfaults>>
  /\ UNCHANGED <<guardVars, scanVars, sortVars>>

\* a handler returns val without calling the service
Returned(p, val) ==
  /\ pc[p] = "process"
  /\ loc' = [loc EXCEPT ![p] = Locals("process")]
  /\ Finish(p, Ok(val, 0))
  /\ UNCHANGED <<store, nextId, tx, txw, cache, queue, ver, invVer, firstRead,
                 lastWrite, nops, nfaults>>

\* mutant: the status is not checked against the enum
handleStatusUpdate_anyStatus(p, job) ==
  IF job.taskId = 0 \/ job.status = "undef"
  THEN Returned(p, [success |-> FALSE, error |-> "Missing required data"])
  ELSE updateStatus(p, job.taskId, job.status)

\* lines 37-57: the payload checks, then tasksService.updateStatus; what it
\* throws is logged and thrown again
handleStatusUpdate(p, job) ==
  IF job.taskId = 0 \/ job.status = "undef"
  THEN Returned(p, [success |-> FALSE, error |-> "Missing required data"])
  ELSE IF job.status \notin TaskStatus
  THEN Returned(p, [success |-> FALSE, error |-> "Invalid status value"])
  ELSE updateStatus(p, job.taskId, job.status)

\* mutant: the handler marks the task as being worked on
handleOverdueTasks_marks(p, job) ==
  /\ pc[p] = "process"
  /\ loc' = [loc EXCEPT ![p] = Locals("findOne")]
  /\ store' = [store EXCEPT ![job.taskId].status = "IN_PROGRESS"]
  /\ Finish(p, Ok([success |-> TRUE], 0))
  /\ UNCHANGED <<nextId, tx, txw, cache, queue, ver, invVer, firstRead,
                 lastWrite, nops, nfaults>>

\* lines 58-73: the payload check, then tasksService.findOne; what it throws
\* is logged and thrown again
handleOverdueTasks(p, job) ==
  IF job.taskId = 0
  THEN Returned(p, [success |-> FALSE, error |-> "Missing taskId"])
  ELSE findOne(p, job.taskId)

\* lines 17-36: the switch on job.name
process(p) ==
  /\ pc[p] = "process"
  /\ active # 0
  /\ CASE queue[active].name = "task-status-update" ->
            handleStatusUpdate(p, queue[active])
       [] queue[active].name = "overdue-tasks-notification" ->
            handleOverdueTasks(p, queue[active])
       [] OTHER -> Returned(p, [success |-> FALSE, error |-> "Unknown job type"])

\* process has returned or thrown.  A returned value completes the job; a
\* thrown error counts an attempt, and the job waits for its backoff delay
\* while attempts are left and is failed when none is
settle(p) ==
  LET job == queue[active]
      st == jobst[active]
      made == st.threw + 1
  IN
  /\ pc[p] = "done"
  /\ active # 0
  /\ jobst' =
       [jobst EXCEPT ![active] =
          IF res[p].kind = "ok"
          THEN [st EXCEPT !.state = "completed",
                          !.ret = IF loc[p].op = "process" THEN "failure"
                                  ELSE "success"]
          ELSE IF made < job.attempts
          THEN [st EXCEPT !.state = "delayed", !.threw = made,
                          !.notFound = @ \/ res[p].err = "NotFound",
                          !.delays = Append(@, Backoff(job.delay, made))]
          ELSE [st EXCEPT !.state = "failed", !.threw = made,
                          !.notFound = @ \/ res[p].err = "NotFound",
                          !.reports = @ + 1]]
  /\ active' = 0
  /\ pc' = [pc EXCEPT ![p] = "idle"]
  /\ loc' = [loc EXCEPT ![p] = Locals("none")]
  /\ res' = [res EXCEPT ![p] = NoRes]
  /\ UNCHANGED <<store, nextId, tx, txw, cache, queue, ver, invVer, firstRead,
                 lastWrite, serial, nops, nfaults, retry>>
  /\ UNCHANGED <<guardVars, scanVars, sortVars>>

\* the backoff delay of job k has passed: it is back in the wait list
promote(k) ==
  /\ k \in 1..Len(jobst)
  /\ jobst[k].state = "delayed"
  /\ jobst' = [jobst EXCEPT ![k].state = "waiting"]
  /\ retry' = Append(retry, [job |-> k, after |-> Len(queue)])
  /\ UNCHANGED <<active, serviceVars, guardVars, scanVars, sortVars>>

\* --------------------------------------------------- OverdueTasksService
\* mutant: a task due at the scan time counts as overdue
OverdueIds_dueNow(s, d, t) ==
  {i \in Ids : /\ Exists(s, i)
               /\ s[i].status = "PENDING"
               /\ d[i] # << >> /\ d[i][1] <= t}

\* lines 27-33: find({ where: { dueDate: LessThan(now), status: PENDING },
\* select: ['id'] }); a null dueDate is less than nothing
OverdueIds(s, d, t) ==
  {i \in Ids : /\ Exists(s, i)
               /\ s[i].status = "PENDING"
               /\ d[i] # << >> /\ d[i][1] < t}

\* lines 22-40: the hourly tick runs the query and returns when it finds
\* nothing; a tick that would fill the queue beyond MaxJobs is left out
checkOverdueTasks ==
  LET ids == Ascending(OverdueIds(store, due, now)) IN
  /\ scan.pc = "idle"
  /\ Len(queue) + Len(ids) <= MaxJobs
  /\ scan' = [NoScan EXCEPT !.found = ids, !.at = now, !.table = store,
                            !.dates = due, !.i = 1,
                            !.pc = IF ids = << >> THEN "idle" ELSE "add",
                            !.ended = IF ids = << >> THEN "returned" ELSE "none"]
  /\ UNCHANGED <<serviceVars, guardVars, workerVars, due, sortVars>>

\* mutant: the adds are awaited one by one and a rejected one ends the scan
checkOverdueTasks_add_stops ==
  \E ok \in BOOLEAN :
    /\ scan.pc = "add"
    /\ Call(ok)
    /\ queue' = IF ok THEN Append(queue, OverdueJob(scan.found[scan.i])) ELSE queue
    /\ scan' = [scan EXCEPT !.results = Append(@, ok), !.i = @ + 1,
                            !.pc = IF ~ok THEN "idle"
                                   ELSE IF scan.i < Len(scan.found) THEN "add"
                                   ELSE "settled",
                            !.ended = IF ok THEN "none" ELSE "threw"]
    /\ UNCHANGED <<store, nextId, tx, txw, cache, pc, loc, res, ver, invVer,
                   firstRead, lastWrite, serial, nops>>
    /\ UNCHANGED <<guardVars, workerVars, due, sortVars>>

\* lines 42-51: taskQueue.add for the i-th task found; Promise.allSettled
\* keeps the outcome of each add, fulfilled or rejected
checkOverdueTasks_add ==
  \E ok \in BOOLEAN :
    /\ scan.pc = "add"
    /\ Call(ok)
    /\ queue' = IF ok THEN Append(queue, OverdueJob(scan.found[scan.i])) ELSE queue
    /\ scan' = [scan EXCEPT !.results = Append(@, ok), !.i = @ + 1,
                            !.pc = IF scan.i < Len(scan.found) THEN "add"
                                   ELSE "settled"]
    /\ UNCHANGED <<store, nextId, tx, txw, cache, pc, loc, res, ver, invVer,
                   firstRead, lastWrite, serial, nops>>
    /\ UNCHANGED <<guardVars, workerVars, due, sortVars>>

\* lines 40, 52-54: the counts the scan logs: found, fulfilled, and the rest
checkOverdueTasks_log ==
  LET successCount == Cardinality({k \in 1..Len(scan.results) : scan.results[k]})
  IN
  /\ scan.pc = "settled"
  /\ scan' = [scan EXCEPT !.log = [found |-> Len(scan.found),
                                   enqueued |-> successCount,
                                   failed |-> Len(scan.results) - successCount],
                          !.pc = "idle", !.ended = "returned"]
  /\ UNCHANGED <<serviceVars, guardVars, workerVars, due, sortVars>>

\* ------------------------------------------------------ findAll ordering
\* line 90: the columns a caller may order by
SortableFields == {"title", "createdAt", "dueDate", "priority", "status"}

\* lines 90-94: the order column; an absent sortBy is the empty string, which
\* the list does not hold
orderField(sortBy) ==
  IF sortBy \in SortableFields THEN sortBy ELSE "createdAt"

\* line 96: the direction
orderDirection(sortOrder) == IF sortOrder = "ASC" THEN "ASC" ELSE "DESC"

\* ORDER BY field dir: data lists every row of rows once, and no row comes
\* before one the order puts first; rows equal in the column come in any order
OrderedBy(rows, data, field, dir) ==
  /\ Len(data) = Len(rows)
  /\ \A r \in 1..Len(rows) : \E k \in 1..Len(data) : data[k] = r
  /\ \A j, k \in 1..Len(data) :
       j < k => IF dir = "ASC"
                THEN rows[data[j]][field] <= rows[data[k]][field]
                ELSE rows[data[j]][field] >= rows[data[k]][field]

\* a column value is written as its place in the database's order of the
\* column; createdAt is the place of the row in the table
SortRows ==
  {rows \in [1..MaxTasks -> [title : {1, 2}, createdAt : 1..MaxTasks,
                              dueDate : {1, 2}, priority : {1, 2},
                              status : {1, 2}]] :
     \A r \in 1..MaxTasks : rows[r].createdAt = r}

SortBys == SortableFields \cup {"undef", "id", "Title"}
SortOrders == {"undef", "ASC", "DESC", "asc"}

\* lines 71-75: a findAll whose query is to be built; the first page holds
\* every row of the table
findAll_sorted(rows, sortBy, sortOrder) ==
  /\ listing.pc = "none"
  /\ listing' = [NoListing EXCEPT !.rows = rows, !.sortBy = sortBy,
                                  !.sortOrder = sortOrder, !.pc = "orderBy"]
  /\ UNCHANGED <<serviceVars, guardVars, workerVars, scanVars>>

\* lines 90-100: orderBy(orderField, direction) and getManyAndCount
findAll_orderBy ==
  /\ listing.pc = "orderBy"
  /\ \E data \in [1..Len(listing.rows) -> 1..Len(listing.rows)] :
       /\ OrderedBy(listing.rows, data, orderField(listing.sortBy),
                    orderDirection(listing.sortOrder))
       /\ listing' = [listing EXCEPT !.data = data, !.pc = "done"]
  /\ UNCHANGED <<serviceVars, guardVars, workerVars, scanVars>>

\* -------------------------------------------------------- specification
Statuses == {"COMPLETED"}

Next ==
  \E p \in Clients :
    \/ \E task \in NewTasks : create(p, task)
    \/ create_add(p)
    \/ create_commit(p)
    \/ \E f \in Filters : findAll(p, f)
    \/ findAll_db(p)
    \/ findAll_set(p)
    \/ getStats(p)
    \/ getStats_db(p)
    \/ getStats_set(p)
    \/ \E id \in Ids : findOne(p, id)
    \/ findOne_db(p)
    \/ findOne_set(p)
    \/ \E id \in Ids, dto \in Dtos : update(p, id, dto)
    \/ update_save(p)
    \/ update_add(p)
    \/ update_commit(p)
    \/ \E id \in Ids : remove(p, id)
    \/ \E id \in Ids, st \in Statuses : updateStatus(p, id, st)
    \/ updateStatus_save(p)
    \/ \E ids \in IdLists, st \in Statuses : bulkUpdateStatus(p, ids, st)
    \/ bulkUpdateStatus_add(p)
    \/ \E ids \in IdLists : bulkDelete(p, ids)
    \/ invalidateTaskCache_all(p)
    \/ invalidateTaskCache_stats(p)
    \/ del_task(p)
    \/ Expire

\* requests overlap
Spec == Init /\ [][Next]_vars

\* requests arrive one after the other
SpecSerial == InitSerial /\ [][Next]_vars

\* the rate-limit guard alone: requests of two callers and the clock
InitGuard == Start /\ serial = FALSE /\ store = [i \in Ids |-> NoTask]

NextGuard ==
  \/ \E ip \in Ips : request(ip)
  \/ \E ip \in Ips : canActivate(ip)
  \/ \E d \in ClockSteps : advance(d)

SpecGuard == InitGuard /\ [][NextGuard]_vars

\* a client removes a task that a job on the queue names
removeNamed(p, id) ==
  /\ \E k \in 1..Len(queue) : queue[k].taskId = id
  /\ Exists(store, id)
  /\ remove(p, id)

\* the worker with the producers of its queue, while a client removes tasks
InitWorker == Start /\ serial = FALSE

NextWorker ==
  \/ \E job \in JobInputs : add(job)
  \/ \E id \in Ids : removeNamed("r1", id)
  \/ \E k \in 1..MaxJobs : promote(k)
  \/ \E p \in Workers :
       \/ fetch(p)
       \/ process(p)
       \/ settle(p)
  \/ \E p \in Procs :
       \/ findOne_db(p)
       \/ findOne_set(p)
       \/ updateStatus_save(p)
       \/ invalidateTaskCache_all(p)
       \/ invalidateTaskCache_stats(p)
       \/ del_task(p)

SpecWorker == InitWorker /\ [][NextWorker]_vars

\* the tables the scanner may find: tasks 1..n, each PENDING or COMPLETED, with
\* no dueDate, one before the time of the scan (-1), one equal to it (0) or
\* one after it (1)
ScanTables ==
  {t \in [Ids -> {NoTask} \cup {[status |-> st, priority |-> "LOW"] :
                                  st \in {"PENDING", "COMPLETED"}}] :
     \A i \in Ids : (i > 1 /\ Exists(t, i)) => Exists(t, i - 1)}

ScanDueDates == [Ids -> {<< >>, <<-1>>, <<0>>, <<1>>}]

\* the scanner and the worker of the jobs it adds
InitScanner ==
  /\ StartWith(ScanTables, ScanDueDates)
  /\ serial = FALSE
  /\ \A i \in Ids : ~Exists(store, i) => due[i] = << >>

NextScanner ==
  \/ checkOverdueTasks
  \/ checkOverdueTasks_add
  \/ checkOverdueTasks_log
  \/ \E k \in 1..MaxJobs : promote(k)
  \/ \E p \in Workers :
       \/ fetch(p)
       \/ process(p)
       \/ settle(p)
       \/ findOne_db(p)
       \/ findOne_set(p)

SpecScanner == InitScanner /\ [][NextScanner]_vars

\* a client that creates and updates tasks, and the worker of the jobs these
\* calls add
InitPipeline == Start /\ serial = FALSE

NextPipeline ==
  \/ \E task \in NewTasks : create("r1", task)
  \/ \E id \in Ids, dto \in Dtos : update("r1", id, dto)
  \/ \E k \in 1..MaxOps : promote(k)
  \/ \E p \in Workers :
       \/ fetch(p)
       \/ process(p)
       \/ settle(p)
  \/ \E p \in Procs :
       \/ create_add(p)
       \/ create_commit(p)
       \/ update_save(p)
       \/ update_add(p)
       \/ update_commit(p)
       \/ updateStatus_save(p)
       \/ invalidateTaskCache_all(p)
       \/ invalidateTaskCache_stats(p)
       \/ del_task(p)

SpecPipeline == InitPipeline /\ [][NextPipeline]_vars

\* findAll's ordering of every table under every sortBy and sortOrder
InitSort ==
  /\ StartWith({[i \in Ids |-> NoTask]}, {NoDueDates})
  /\ serial = FALSE

NextSort ==
  \/ \E rows \in SortRows : \E sortBy \in SortBys : \E sortOrder \in SortOrders :
       findAll_sorted(rows, sortBy, sortOrder)
  \/ findAll_orderBy

SpecSort == InitSort /\ [][NextSort]_vars

\* ----------------------------------------------------------- properties
Reads == {"findOne", "findAll", "getStats"}
Mutations == {"create", "update", "updateStatus", "remove", "bulkUpdateStatus",
              "bulkDelete"}
Done(p) == pc[p] = "done"

\* C1: a mutation issues a cache delete only after its store write has
\* committed, never while its transaction is open.
C1_DeleteOnlyAfterCommit ==
  \A p \in Procs : loc[p].del => tx[p] # "open"

\* C2: a mutation calls the queue only after its transaction has committed,
\* never while it is open.
C2_EnqueueOnlyAfterCommit ==
  \A p \in Procs : loc[p].enq # "none" => tx[p] # "open"

\* C3: when the enqueue of create, update or bulkUpdateStatus fails (and no
\* cache call of the request does), the request is never answered with an
\* error, and once it has returned the caller holds the normal result, the
\* store holds the state the request wrote and no transaction is left open.
C3_EnqueueFailureIsSwallowed ==
  \A p \in Procs :
    (loc[p].enq = "failed" /\ ~loc[p].cfail) =>
      /\ res[p].kind # "error"
      /\ Done(p) =>
           /\ res[p].kind = "ok"
           /\ tx[p] = "none"
           /\ loc[p].op \in {"create", "update"} =>
                /\ res[p].val = loc[p].task
                /\ store[loc[p].id] = loc[p].task
           /\ loc[p].op = "bulkUpdateStatus" =>
                /\ res[p].val = [affected |-> loc[p].affected]
                /\ \A k \in 1..Len(loc[p].ids) :
                     Exists(store, loc[p].ids[k]) =>
                       store[loc[p].ids[k]].status = loc[p].dto.status

\* C3 witness: an update that changed the status and whose enqueue failed has
\* returned its result, and the store holds the new status.
C3_Witness ==
  \E p \in Procs :
    /\ Done(p) /\ loc[p].enq = "failed" /\ res[p].kind = "ok"
    /\ loc[p].op = "update" /\ store[loc[p].id].status = "COMPLETED"

\* C4: a findOne served from the cache never returns a version of the row
\* older than one whose mutation had returned when the read started.
C4_NoStaleReadAfterInvalidation ==
  \A p \in Procs :
    (Done(p) /\ loc[p].op = "findOne" /\ loc[p].hit) =>
      res[p].tag >= loc[p].sinv

\* C5: with the requests in a row and no failed dependency call, a findOne
\* returns the row as the store holds it (NotFound when it holds none) and a
\* getStats the counts of the store, whatever mutations and reads came before.
C5_ReadAfterWriteInARow ==
  \A p \in Procs :
    (serial /\ nfaults = 0 /\ Done(p)) =>
      /\ loc[p].op = "findOne" =>
           IF res[p].kind = "ok" THEN res[p].val = store[loc[p].id]
           ELSE res[p].err = "NotFound" /\ ~Exists(store, loc[p].id)
      /\ loc[p].op = "getStats" =>
           res[p].kind = "ok" /\ res[p].val = Stats(store)

\* C5 witness: a findOne returns the second version of a row created in this
\* run whose first version an earlier findOne had put in the cache.
C5_Witness ==
  \E p \in Procs :
    /\ serial /\ nfaults = 0 /\ Done(p)
    /\ loc[p].op = "findOne" /\ res[p].kind = "ok"
    /\ loc[p].id = 2
    /\ firstRead[loc[p].id] = 1
    /\ res[p].tag = 2
    /\ res[p].val.status = "COMPLETED"

\* C6: with the requests in a row, a findAll that follows a completed
\* updateStatus(T, COMPLETED) lists T as COMPLETED when its filter admits T.
C6_FindAllReflectsUpdateStatus ==
  \A p \in Procs :
    ( /\ serial /\ nfaults = 0 /\ Done(p)
      /\ loc[p].op = "findAll" /\ res[p].kind = "ok"
      /\ lastWrite.op = "updateStatus" /\ lastWrite.status = "COMPLETED"
      /\ Field(loc[p].filter, "status") \in {"undef", "COMPLETED"}
      /\ Field(loc[p].filter, "priority") = "undef" ) =>
      \E k \in 1..Len(res[p].val.data) :
        /\ res[p].val.data[k].id = lastWrite.ids[1]
        /\ res[p].val.data[k].status = "COMPLETED"

\* C7: a read whose cache get or set failed still answers from the store:
\* the caller sees no cache error.
C7_ReadSurvivesCacheFailure ==
  \A p \in Procs :
    (Done(p) /\ loc[p].op \in Reads /\ loc[p].cfail) =>
      ~(res[p].kind = "error" /\ res[p].err = "cache")

\* C8: a mutation whose cache delete failed still returns its normal result
\* and its store write stays committed.
C8_MutationSurvivesCacheFailure ==
  \A p \in Procs :
    (Done(p) /\ loc[p].op \in Mutations /\ loc[p].cfail) => res[p].kind = "ok"

\* the same fields with the same values, in any insertion order
SameEntries(f, g) ==
  {f[k] : k \in 1..Len(f)} = {g[k] : k \in 1..Len(g)}

\* C9: two findAll calls whose filters hold the same fields with the same
\* values use the same cache key.
C9_CacheKeyIsCanonical ==
  \A p, q \in Procs :
    ( /\ loc[p].op = "findAll" /\ loc[q].op = "findAll"
      /\ SameEntries(loc[p].filter, loc[q].filter) ) =>
      getCacheKey(loc[p].filter) = getCacheKey(loc[q].filter)

\* C10: a bulkUpdateStatus that repeats the one before it, with no other
\* store write in between, changes no row and reports the same affected count.
C10_BulkUpdateStatusIdempotent ==
  lastWrite.again =>
    /\ ~lastWrite.changed
    /\ lastWrite.affected = lastWrite.before

\* C10 witness: the repeated call matched rows the first call had changed.
C10_Witness ==
  /\ lastWrite.again
  /\ lastWrite.affected = 2
  /\ \A i \in 1..2 : store[i].status = "COMPLETED"

\* ---------------------------------------------- RateLimitGuard properties
\* the admitted requests of a caller key that fell in the window ending at e
InWindow(key, e) ==
  {k \in 1..Len(admitted[key]) : admitted[key][k].win = e}

\* the admitted requests of a caller key in the W milliseconds from time t on
Within(key, t) ==
  {k \in 1..Len(admitted[key]) :
     admitted[key][k].at >= t /\ admitted[key][k].at <= t + WindowMs}

\* C11: while one window record of a caller key is live the guard admits at
\* most Limit requests, and it rejects a request only when the window of the
\* record has admitted Limit requests: the request that made the record and
\* the Limit-1 after it pass, every further one is rejected.
C11_AtMostLimitPerWindow ==
  /\ \A key \in Keys : \A k \in 1..Len(admitted[key]) :
       Cardinality(InWindow(key, admitted[key][k].win)) <= Limit
  /\ ( /\ handled.key \in Keys
       /\ handled.before # NoRecord
       /\ handled.before.expiresAt >= handled.at ) =>
       LET n == Cardinality(InWindow(handled.key, handled.before.expiresAt))
       IN IF handled.allowed THEN n <= Limit ELSE n = Limit

\* C11 witness: a request is rejected in a window that admitted Limit requests.
C11_Witness ==
  /\ handled.key \in Keys
  /\ ~handled.allowed
  /\ Cardinality(InWindow(handled.key, handled.before.expiresAt)) = Limit

\* C12: of the requests of one caller key that were received while one slot of
\* the window was left, at most one is admitted in that window.
C12_OneSlotOneAdmission ==
  \A key \in Keys : \A j, k \in 1..Len(admitted[key]) :
    LET a == admitted[key][j]
        b == admitted[key][k]
    IN ( /\ j < k
         /\ a.seen # NoRecord /\ a.seen.count = Limit - 1
         /\ b.seen = a.seen
         /\ a.win = a.seen.expiresAt ) => b.win # a.win

\* C12 witness: two requests were received while one slot was left; one took
\* the slot and the other was rejected.
C12_Witness ==
  /\ handled.key \in Keys
  /\ ~handled.allowed
  /\ handled.seen # NoRecord /\ handled.seen.count = Limit - 1
  /\ \E k \in 1..Len(admitted[handled.key]) :
       /\ admitted[handled.key][k].seen = handled.seen
       /\ admitted[handled.key][k].win = handled.seen.expiresAt

\* C13: a rejected request carries retryAfter = ceil((expiresAt - now)/1000),
\* and that number is at least 1 and at most ceil(WindowMs/1000).
C13_RetryAfterPositive ==
  (handled.key \in Keys /\ ~handled.allowed) =>
    /\ handled.retryAfter = Ceil(handled.before.expiresAt - handled.at, 1000)
    /\ handled.retryAfter > 0
    /\ handled.retryAfter <= Ceil(WindowMs, 1000)

\* C14: a request that comes after the window of its key has elapsed is
\* admitted whatever the count, and the record becomes count 1 with a window
\* of WindowMs from now.
C14_ElapsedWindowResets ==
  ( /\ handled.key \in Keys
    /\ handled.before # NoRecord
    /\ handled.before.expiresAt < handled.at ) =>
    /\ handled.allowed
    /\ handled.after = [count |-> 1, expiresAt |-> handled.at + WindowMs]

\* C14 witness: the elapsed window was full.
C14_Witness ==
  /\ handled.key \in Keys
  /\ handled.before.count = Limit
  /\ handled.before.expiresAt < handled.at
  /\ handled.allowed

\* C15: no WindowMs milliseconds hold more than 2 * Limit admitted requests
\* of one caller key.
C15_AtMostTwiceLimitInAnyWindow ==
  \A key \in Keys : \A j \in 1..Len(admitted[key]) :
    Cardinality(Within(key, admitted[key][j].at)) <= 2 * Limit

\* C15 witness: a burst across the window boundary, 2 * Limit - 1 admitted
\* requests of two windows within WindowMs milliseconds.
C15_Witness ==
  \E key \in Keys : \E j \in 1..Len(admitted[key]) :
    /\ Cardinality(Within(key, admitted[key][j].at)) = 2 * Limit - 1
    /\ \E k \in Within(key, admitted[key][j].at) :
         admitted[key][k].win # admitted[key][j].win

\* ---------------------------------------- TaskProcessorService properties
StrictlyIncreasing(q) == \A i, j \in 1..Len(q) : i < j => q[i] < q[j]

Malformed(job) ==
  /\ job.name = "task-status-update"
  /\ job.taskId = 0 \/ job.status = "undef" \/ job.status \notin TaskStatus

Unknown(job) ==
  job.name \notin {"task-status-update", "overdue-tasks-notification"}

\* C16: a job is attempted at most Attempts times; the delays before its
\* retries grow strictly; a job all of whose Attempts attempts threw is failed,
\* reported failed once, and not taken again; a job is failed only then.
C16_ThrowingJobFailsAfterMaxAttempts ==
  \A k \in 1..Len(jobst) :
    LET st == jobst[k] IN
    /\ st.started <= Attempts
    /\ st.threw <= st.started
    /\ st.reports <= 1
    /\ StrictlyIncreasing(st.delays)
    /\ st.state \in {"delayed", "waiting"} =>
         /\ st.threw = st.started /\ st.threw < Attempts
         /\ Len(st.delays) = st.threw
         /\ st.reports = 0
    /\ st.state = "failed" =>
         /\ st.threw = Attempts /\ st.started = Attempts
         /\ Len(st.delays) = Attempts - 1
         /\ st.reports = 1
         /\ active # k
         /\ \A i \in 1..Len(retry) : retry[i].job # k
    /\ st.threw = Attempts => st.state = "failed"

\* C16 witness: a job has thrown three times, waited 1000 and 2000
\* milliseconds before its retries, and is failed.
C16_Witness ==
  \E k \in 1..Len(jobst) :
    /\ jobst[k].state = "failed"
    /\ jobst[k].started = 3
    /\ jobst[k].delays = <<1000, 2000>>

\* C17: a task-status-update job with no taskId, no status or a status outside
\* the enum is attempted once, its handler returns a failure value without
\* throwing and without calling the service, and no stored status is ever
\* outside the enum.
C17_MalformedJobHandledOnce ==
  /\ \A i \in Ids : Exists(store, i) => store[i].status \in TaskStatus
  /\ \A k \in 1..Len(jobst) :
       Malformed(queue[k]) =>
         /\ jobst[k].started = 1 /\ jobst[k].threw = 0
         /\ jobst[k].state \in {"active", "completed"}
         /\ jobst[k].state = "completed" => jobst[k].ret = "failure"
         /\ active = k =>
              \A p \in Workers :
                /\ loc[p].op \in {"none", "process"}
                /\ pc[p] \in {"process", "done"}
                /\ pc[p] = "done" =>
                     res[p].kind = "ok" /\ res[p].val.success = FALSE

\* C17 witness: a job asking for status ARCHIVED is done with and the task it
\* names is stored with its status as before.
C17_Witness ==
  \E k \in 1..Len(jobst) :
    /\ queue[k].status = "ARCHIVED"
    /\ jobst[k].state = "completed"
    /\ Exists(store, queue[k].taskId)
    /\ store[queue[k].taskId].status = "PENDING"

\* C18: a job of a kind the processor does not know ends failed after one
\* attempt, not completed.
C18_UnknownKindFails ==
  \A k \in 1..Len(jobst) :
    (Unknown(queue[k]) /\ jobst[k].state # "active") =>
      jobst[k].state = "failed" /\ jobst[k].started = 1

\* C19: an overdue-tasks-notification job whose task was removed and whose
\* attempt ended with NotFound is failed after that one attempt, not retried.
C19_NotFoundIsTerminal ==
  \A k \in 1..Len(jobst) :
    ( /\ queue[k].name = "overdue-tasks-notification"
      /\ lastWrite.op = "remove" /\ lastWrite.ids = <<queue[k].taskId>>
      /\ jobst[k].notFound ) =>
      jobst[k].state = "failed" /\ jobst[k].started = 1

\* C20: no step of the worker, from taking a job to its completion or
\* failure, adds a job to the queue.
C20_ProcessingAddsNoJob ==
  [][(\E p \in Workers : pc'[p] # pc[p] \/ loc'[p] # loc[p]) => queue' = queue]_vars

\* C20 witness: a task-status-update job has run updateStatus to its end, the
\* task has the job's status, and the queue holds the jobs it held.
C20_Witness ==
  \E k \in 1..Len(jobst) :
    /\ queue[k].name = "task-status-update"
    /\ jobst[k].state = "completed" /\ jobst[k].ret = "success"
    /\ store[queue[k].taskId].status = queue[k].status
    /\ Len(queue) <= MaxJobs

\* ------------------------------------------------------ overdue scanner
\* the outcomes of the adds of the scan that has just ended
Rejected == {k \in 1..Len(scan.results) : ~scan.results[k]}

\* C21: a scan that found N tasks attempts an add for every one of them,
\* whether or not some are rejected, logs N found, the number of rejected adds
\* as failed and N less that number as enqueued, and returns without throwing.
C21_ScanAttemptsAllAndCounts ==
  /\ scan.ended # "threw"
  /\ (scan.ended = "returned" /\ scan.found # << >>) =>
       /\ Len(scan.results) = Len(scan.found)
       /\ scan.log.found = Len(scan.found)
       /\ scan.log.failed = Cardinality(Rejected)
       /\ scan.log.enqueued = Len(scan.found) - Cardinality(Rejected)

\* C21 witness: a scan over two tasks has ended with the first add rejected
\* and the second one on the queue.
C21_Witness ==
  /\ scan.ended = "returned"
  /\ scan.results = <<FALSE, TRUE>>
  /\ scan.log = [found |-> 2, enqueued |-> 1, failed |-> 1]
  /\ \E k \in 1..Len(queue) : queue[k] = OverdueJob(scan.found[2])

\* the task i was, at the time of the scan, stored PENDING with a dueDate
\* strictly before that time
WasOverdue(i) ==
  /\ scan.table[i] # NoTask
  /\ scan.table[i].status = "PENDING"
  /\ Len(scan.dates[i]) = 1
  /\ scan.dates[i][1] - scan.at < 0

\* C22: a scan submits one overdue-tasks-notification job carrying the id of
\* each task stored PENDING with a dueDate strictly before the scan time, and
\* none for any other task.
C22_OneJobPerOverduePendingTask ==
  (scan.ended = "returned") =>
    /\ Len(scan.results) = Len(scan.found)
    /\ \A i \in Ids :
         Cardinality({k \in 1..Len(scan.found) : scan.found[k] = i})
           = IF WasOverdue(i) THEN 1 ELSE 0
    /\ \A k \in 1..Len(scan.found) :
         scan.results[k] =>
           \E j \in 1..Len(queue) :
             /\ queue[j].name = "overdue-tasks-notification"
             /\ queue[j].taskId = scan.found[k]

\* C22 witness: a scan has ended over a table with a PENDING task due before
\* the scan, a PENDING task due at the time of the scan, and it submitted a
\* job for the first only.
C22_Witness ==
  /\ scan.ended = "returned"
  /\ scan.found = <<1>> /\ scan.results = <<TRUE>>
  /\ scan.table[2] # NoTask /\ scan.table[2].status = "PENDING"
  /\ scan.dates[2] = <<scan.at>>
  /\ Len(queue) = 1 /\ queue[1] = OverdueJob(1)

\* a step of the scanner, or of the worker on an overdue-tasks-notification
\* job
ScannerStep == scan' # scan

OverdueHandlerStep ==
  /\ active # 0
  /\ queue[active].name = "overdue-tasks-notification"
  /\ \E p \in Workers : pc'[p] # pc[p] \/ loc'[p] # loc[p] \/ res'[p] # res[p]

\* C23: no step of the scanner, and no step of the processing of an
\* overdue-tasks-notification job, changes a stored task or its dueDate.
C23_ScanAndNotifyLeaveStore ==
  [][(ScannerStep \/ OverdueHandlerStep) => (store' = store /\ due' = due)]_vars

\* C23 witness: the job the scan added for task 1 is completed, and task 1 is
\* stored as it was when the scan read it.
C23_Witness ==
  /\ scan.ended = "returned"
  /\ scan.found # << >> /\ scan.found[1] = 1 /\ scan.results[1]
  /\ \E k \in 1..Len(jobst) :
       /\ queue[k] = OverdueJob(1)
       /\ jobst[k].state = "completed" /\ jobst[k].ret = "success"
  /\ store[1] = scan.table[1] /\ due[1] = scan.dates[1]

\* ---------------------------------------------------------- atomicity
\* C24: no other mutation's write to a task takes effect between a mutation's
\* read of the task and its write: the row updateStatus saves over is the row
\* it read, so a task removed in between is not written back.
C24_WriteFollowsItsRead ==
  [][\A p \in Procs :
       (pc[p] = "updateStatus_save" /\ pc'[p] = "inv_all") =>
         store[loc[p].id] = loc[p].task]_vars

\* ----------------------------------------------------- findAll ordering
\* C25: when sortBy is absent or not one of title, createdAt, dueDate,
\* priority, status, findAll returns the rows by createdAt descending whatever
\* sortOrder is; when it is one of them, by that column, ascending when
\* sortOrder is ASC and descending otherwise.
C25_SortFallsBackToCreatedAtDescending ==
  (listing.pc = "done") =>
    IF listing.sortBy \in {"title", "createdAt", "dueDate", "priority", "status"}
    THEN OrderedBy(listing.rows, listing.data, listing.sortBy,
                   IF listing.sortOrder = "ASC" THEN "ASC" ELSE "DESC")
    ELSE OrderedBy(listing.rows, listing.data, "createdAt", "DESC")

\* ------------------------------------------------------------ NotFound
\* the call of p ends here with NotFoundException
ThrowsNotFound(p) ==
  /\ res'[p] # res[p]
  /\ res'[p] = Error("NotFound")
  /\ loc'[p].op \in {"update", "updateStatus", "remove"}

\* C26: an update, updateStatus or remove of an id the store does not hold
\* ends with NotFound in the step that looked for the row, and that step
\* changes no row, deletes no cache entry, adds no job and leaves no
\* transaction open.
C26_NotFoundChangesNothing ==
  [][\A p \in Procs :
       ThrowsNotFound(p) =>
         /\ ~Exists(store, loc'[p].id)
         /\ pc[p] \in {"idle", "done", "process"}
         /\ store' = store /\ ver' = ver
         /\ cache' = cache
         /\ queue' = queue
         /\ tx'[p] = "none"]_vars

\* C26 witness: remove(2) has ended with NotFound while task 1 is stored and
\* the cache holds the statistics.
C26_Witness ==
  \E p \in Clients :
    /\ res[p] = Error("NotFound")
    /\ loc[p].op = "remove" /\ loc[p].id = 2
    /\ Exists(store, 1)
    /\ cache.stats.hit

\* ------------------------------------------------- status-update jobs
\* the table was last written by a client's create or update of task i, and
\* no client has a transaction open
ClientWroteLast(i) ==
  /\ lastWrite.op \in {"create", "update", "bulkUpdateStatus"}
  /\ \E k \in 1..Len(lastWrite.ids) : lastWrite.ids[k] = i
  /\ \A q \in Clients : tx[q] = "none"

\* C27: the processing of a task-status-update job never moves the stored
\* status of a task away from the one the most recent committed client
\* mutation of the task gave it.
C27_JobKeepsLatestClientStatus ==
  [][\A p \in Workers : \A i \in Ids :
       ( /\ pc[p] = "updateStatus_save" /\ pc'[p] # pc[p]
         /\ ClientWroteLast(i)
         /\ Exists(store, i) ) =>
         (Exists(store', i) /\ store'[i].status = lastWrite.status)]_vars

\* ------------------------------------------------ rate-limit records
\* the guard has run for a received request
CheckStep == nreq' = nreq /\ pending' # pending

\* C28: a check changes no record but the one of the key it is made for, a
\* rejected check changes no record at all, and the map changes in no step
\* that is not a check.
C28_CheckTouchesOnlyItsKey ==
  [][IF CheckStep
     THEN /\ \A k \in Keys \ {handled'.key} :
               rateLimitStore'[k] = rateLimitStore[k]
          /\ ~handled'.allowed => rateLimitStore' = rateLimitStore
     ELSE rateLimitStore' = rateLimitStore]_vars

\* C28 witness: the request handled last was rejected, the record of its key
\* is the one the guard read, and the other caller has a record of its own.
C28_Witness ==
  /\ handled.key \in Keys
  /\ ~handled.allowed
  /\ handled.before.count = Limit
  /\ rateLimitStore[handled.key] = handled.before
  /\ \E k \in Keys \ {handled.key} : rateLimitStore[k].count >= 1

====
